---- MODULE Spec2Model ----
(***************************************************************************)
(* 3d honeycombs of src/uniform-tilings/honeycomb.py: the fundamental      *)
(* cells (Cell), the fundamental-domain assembly (Honeycomb.__init__) and  *)
(* the deduplicating, camera-culled export (generate_povray_data).         *)
(*                                                                         *)
(* Numbers.  A float x is the integer x * Unit (fixed point), so every     *)
(* float operation rounds to the nearest representable value, and          *)
(* np.round(v, 8) rounds to the nearest multiple of Quantum, ties to even. *)
(* A mirror is held as an integer direction m of its unit normal           *)
(* n = m / |m|, so that 2 (v.n) n = (2 (v.m) / (m.m)) m is exact.          *)
(***************************************************************************)
EXTENDS Integers, Sequences, FiniteSets, TLC

\* ------------------------------------------------------------------ bounds
\* largest traversal depth a caller passes to generate_povray_data
MaxDepth == 1
\* largest maxcount a caller passes to generate_povray_data
MaxCount == 6
\* largest maxcount when the engine may yield the words in any order
MaxCountAny == 3
\* number of generate_povray_data calls made on one Honeycomb
MaxRuns == 2

\* ------------------------------------------------------- number representation
\* the fixed-point image of 1.0
Unit == 1000
\* the fixed-point image of 10^-8, the step np.round(v, 8) rounds to
Quantum == 2
\* "no limit": the None of traverse(depth=None, maxcount=None)
NoLimit == 0 - 1

\* a / b rounded to the nearest integer (b > 0), symmetric about 0
RoundDiv(a, b) == IF a < 0 THEN 0 - ((2 * (0 - a) + b) \div (2 * b))
                  ELSE (2 * a + b) \div (2 * b)

\* the largest r = base + d * step, d a base-36 digit, with r * r <= n;
\* 46340 is the largest integer whose square fits the machine word
SqrtDigit(n, base, step) ==
    LET Fits(r) == r <= 46340 /\ r * r <= n
        d == CHOOSE c \in 0..35 :
                 /\ Fits(base + c * step)
                 /\ (c = 35 \/ ~Fits(base + (c + 1) * step))
    IN base + d * step

\* np.sqrt: the square root of n >= 0, rounded to the nearest integer
Sqrt(n) == LET f == SqrtDigit(n, SqrtDigit(n, SqrtDigit(n, 0, 1296), 36), 1)
           IN IF n - f * f > f THEN f + 1 ELSE f

RECURSIVE DotTo(_, _, _)
DotTo(u, v, k) == IF k = 0 THEN 0 ELSE u[k] * v[k] + DotTo(u, v, k - 1)

\* np.dot of two vectors of one length
Dot(u, v) == DotTo(u, v, Len(u))

\* tuple(...) (lines 23, 52): the function over 1..n as a sequence value, its
\* entries computed once
tuple(xs) == xs \o <<>>

VAdd(u, v) == tuple([i \in 1..Len(u) |-> u[i] + v[i]])
VSub(u, v) == tuple([i \in 1..Len(u) |-> u[i] - v[i]])

\* np.round(x, 8) of one coordinate: nearest multiple of Quantum, ties to even
RoundCoord(x) ==
    LET q == x \div Quantum
        r == x % Quantum
    IN IF 2 * r < Quantum THEN q * Quantum
       ELSE IF 2 * r > Quantum THEN (q + 1) * Quantum
       ELSE IF q % 2 = 0 THEN q * Quantum ELSE (q + 1) * Quantum

\* vround (line 20): tuple(np.round(v, 8))
vround(v) == tuple([i \in 1..Len(v) |-> RoundCoord(v[i])])

\* helpers.normalize: v / |v|
normalize(v) ==
    LET len == Sqrt(Dot(v, v))
    IN IF len = 0 THEN v ELSE tuple([i \in 1..Len(v) |-> RoundDiv(Unit * v[i], len)])

\* centroid (line 26): vround(normalize(np.sum(points, axis=0)))
centroid(points) == vround(normalize(VAdd(points[1], points[2])))

\* reflect (line 127): v - 2 * np.dot(v, normal) * normal, normal = m / |m|
reflect(v, m) ==
    LET c == (2 * Dot(v, m)) \div Dot(m, m)
    IN tuple([i \in 1..Len(v) |-> v[i] - c * m[i]])

RECURSIVE ApplyWord(_, _, _, _)
\* the loop "for w in reversed(word): v = reflect(v, w)" with k letters to go;
\* v is taken before the next letter is
ApplyWord(reflections, word, k, v) ==
    IF k = 0 \/ v = <<>> THEN v
    ELSE ApplyWord(reflections, word, k - 1, reflect(v, reflections[word[k] + 1]))

\* Cell.transform (line 57): the reflections of word, rightmost first, then vround
Cell_transform(reflections, word, v) ==
    vround(ApplyWord(reflections, word, Len(word), v))

\* Honeycomb.transform (line 132)
transform(reflections, word, v) ==
    vround(ApplyWord(reflections, word, Len(word), v))

\* ------------------------------------------------- geometry and group helpers
\* helpers.make_symmetry_matrix: the symmetric matrix with unit diagonal whose
\* upper triangle, row by row, is the diagram
make_symmetry_matrix(diagram) ==
    LET n == 4
        pos(i, j) == ((i - 1) * (2 * n - i)) \div 2 + (j - i)
    IN [i \in 1..n |-> [j \in 1..n |->
           IF i = j THEN 1
           ELSE IF i < j THEN diagram[pos(i, j)] ELSE diagram[pos(j, i)]]]

\* the diagrams the mirror construction is tabulated for: the two orderings
\* of the linear diagram 3 - 3 - 4
Diagram334 == <<3, 2, 2, 3, 2, 4>>
Diagram433 == <<4, 2, 2, 3, 2, 3>>

\* helpers.get_hyperbolic_honeycomb_mirrors: one normal per generator, with
\* the dihedral angles the diagram prescribes
get_hyperbolic_honeycomb_mirrors(diagram) ==
    IF diagram = Diagram334
    THEN << <<1, -1, 0, 0>>, <<0, 1, -1, 0>>, <<0, 0, 1, -1>>, <<0, 0, 0, 1>> >>
    ELSE << <<1, 0, 0, 0>>, <<-1, 1, 0, 0>>, <<0, -1, 1, 0>>, <<0, 0, -1, 1>> >>

RECURSIVE SolveUpper(_, _, _, _)
SolveUpper(M, d, i, v) ==
    IF i = 0 THEN v
    ELSE LET rest == DotTo(M[i], [v EXCEPT ![i] = 0], Len(v))
         IN SolveUpper(M, d, i - 1, [v EXCEPT ![i] = (d[i] - rest) \div M[i][i]])

RECURSIVE SolveLower(_, _, _, _)
SolveLower(M, d, i, v) ==
    IF i > Len(v) THEN v
    ELSE LET rest == DotTo(M[i], [v EXCEPT ![i] = 0], Len(v))
         IN SolveLower(M, d, i + 1, [v EXCEPT ![i] = (d[i] - rest) \div M[i][i]])

\* helpers.get_point_from_distance: the point v with np.dot(v, m_i) = d_i for
\* every mirror i (the mirrors form a triangular system)
get_point_from_distance(M, d) ==
    LET zero == [i \in 1..Len(M) |-> 0]
    IN IF \A i \in 1..Len(M) : \A j \in 1..(i - 1) : M[i][j] = 0
       THEN SolveUpper(M, d, Len(M), zero)
       ELSE SolveLower(M, d, 1, zero)

\* helpers.is_degenerate: a triangle group (p, q, r) with these active mirrors
\* spans no polyhedron
is_degenerate(cox_mat, active) ==
    LET p == cox_mat[1][2]
        q == cox_mat[1][3]
        r == cox_mat[2][3]
    IN IF ~(active[1] \/ active[2] \/ active[3]) THEN TRUE
       ELSE IF p = 2 /\ q = 2 /\ r = 2
            THEN ~(active[1] /\ active[2] /\ active[3])
       ELSE IF (p > 2 /\ q > 2) \/ (p > 2 /\ r > 2) \/ (q > 2 /\ r > 2) THEN FALSE
       ELSE IF p = 2 /\ q = 2 THEN ~active[1]
       ELSE IF p = 2 /\ r = 2 THEN ~active[2]
       ELSE ~active[3]

\* helpers.project_poincare: the first three coordinates over 1 + the last
project_poincare(v) ==
    tuple([i \in 1..(Len(v) - 1) |-> RoundDiv(Unit * v[i], Unit + v[Len(v)])])

\* a point no group element but the identity fixes: two words are one group
\* element iff their inverses move it to the same place, and the inverse of
\* w + (i,) moves it to the mirror image, across mirror i, of where the
\* inverse of w does
GenericPoint == <<1, 2, 3, 4>>

\* the positions of a sequence's first occurrences, in order: the entries a
\* loop "if x not in seen: keep x, add x to seen" keeps
FirstSeen(xs) ==
    LET IsFirst(c) == \A b \in 1..(c - 1) : xs[b] # xs[c]
    IN SelectSeq([c \in 1..Len(xs) |-> c], IsFirst)

\* the children w + (i,) of the frontier's words, in order, that are new
\* elements; keys[k] is where the inverse of frontier[k] moves GenericPoint
ExtendFrontier(refs, frontier, keys, seen) ==
    LET n == Len(refs)
        parent(c) == ((c - 1) \div n) + 1
        gen(c) == (c - 1) % n
        key == tuple([c \in 1..(Len(frontier) * n) |->
                        reflect(keys[parent(c)], refs[gen(c) + 1])])
        IsNew(c) == key[c] \notin seen
        kept == SelectSeq(FirstSeen(key), IsNew)
    IN [words |-> tuple([r \in 1..Len(kept) |->
                            Append(frontier[parent(kept[r])], gen(kept[r]))]),
        keys |-> tuple([r \in 1..Len(kept) |-> key[kept[r]]]),
        seen |-> seen \cup {key[c] : c \in 1..Len(key)}]

RECURSIVE BreadthFirst(_, _, _, _, _, _, _)
BreadthFirst(refs, frontier, keys, seen, acc, level, depth) ==
    IF frontier = <<>> \/ (depth # NoLimit /\ level >= depth) THEN acc
    ELSE LET next == ExtendFrontier(refs, frontier, keys, seen)
         IN BreadthFirst(refs, next.words, next.keys, next.seen,
                         acc \o next.words, level + 1, depth)

\* CoxeterGroup.traverse: one reduced word per group element, shortest first,
\* of length at most depth, at most maxcount of them.  The group is given by
\* its generators' mirrors.
traverse(refs, depth, maxcount) ==
    LET all == BreadthFirst(refs, << <<>> >>, <<GenericPoint>>, {GenericPoint},
                            << <<>> >>, 0, depth)
    IN IF maxcount = NoLimit \/ Len(all) <= maxcount THEN all
       ELSE SubSeq(all, 1, maxcount)

\* ------------------------------------------------------------------- Cell
\* a slip of line 67: the word is not applied to v0
Cell_get_vertices_untransformed(reflections, words, v0) ==
    LET image == tuple([k \in 1..Len(words) |-> vround(v0)])
        kept == FirstSeen(image)
    IN tuple([r \in 1..Len(kept) |-> image[kept[r]]])

\* Cell.get_vertices (line 65): the images of v0, first seen first
Cell_get_vertices(reflections, words, v0) ==
    LET image == tuple([k \in 1..Len(words) |->
                          Cell_transform(reflections, words[k], v0)])
        kept == FirstSeen(image)
    IN tuple([r \in 1..Len(kept) |-> image[kept[r]]])

\* Cell.get_edges (line 72): per active generator i and word, the edge from
\* the word's vertex to its neighbour across mirror i, one per midpoint
Cell_get_edges(reflections, active, words, v0) ==
    LET n == Len(words)
        IsActive(i) == active[i + 1]
        gens == SelectSeq([i \in 1..Len(active) |-> i - 1], IsActive)
        edge == tuple([c \in 1..(Len(gens) * n) |->
                         LET i == gens[((c - 1) \div n) + 1]
                             word_ == words[((c - 1) % n) + 1]
                         IN <<Cell_transform(reflections, word_, v0),
                              Cell_transform(reflections, Append(word_, i), v0)>>])
        q == tuple([c \in 1..Len(edge) |-> centroid(edge[c])])
        kept == FirstSeen(q)
    IN tuple([r \in 1..Len(kept) |-> edge[kept[r]]])

\* Cell(...).build_geometry() (lines 38-55)
Cell_build_geometry(cox_mat, v0, active, reflections) ==
    LET words == traverse(reflections, NoLimit, NoLimit)
        vs == Cell_get_vertices(reflections, words, v0)
        es == Cell_get_edges(reflections, active, words, v0)
    IN [cox_mat |-> cox_mat, v0 |-> v0, active |-> active,
        reflections |-> reflections, words |-> words,
        vertices_coords |-> vs, num_vertices |-> Len(vs),
        edge_coords |-> es, num_edges |-> Len(es)]

\* -------------------------------------------------------------- Honeycomb
\* a slip of line 94: the distances' length is not tested
invalid_input_diagram_only(diagram, dist) == Len(diagram) # 6

\* line 94: the shape test of Honeycomb.__init__
invalid_input(diagram, dist) == Len(diagram) # 6 \/ Len(dist) # 4

RECURSIVE SortedSeq(_)
SortedSeq(S) ==
    IF S = {} THEN <<>>
    ELSE LET least == CHOOSE t \in S : \A u \in S :
                 \/ t = u
                 \/ \E i \in 1..Len(t) :
                      /\ t[i] < u[i]
                      /\ \A j \in 1..(i - 1) : t[j] = u[j]
         IN <<least>> \o SortedSeq(S \ {least})

\* itertools.combinations(self.gens, 3) (line 154), in its lexicographic order
combinations3(rank) ==
    SortedSeq({t \in (0..(rank - 1)) \X (0..(rank - 1)) \X (0..(rank - 1)) :
                  t[1] < t[2] /\ t[2] < t[3]})

\* cox_mat[np.ix_(triple, triple)] (line 155)
restrict_matrix(cm, triple) ==
    [a \in 1..3 |-> [b \in 1..3 |-> cm[triple[a] + 1][triple[b] + 1]]]

\* [xs[k] for k in triple] (lines 156-157)
restrict_list(xs, triple) == [a \in 1..3 |-> xs[triple[a] + 1]]

\* a slip of line 158: the degeneracy test is left out
get_fundamental_cells_step_unchecked(res, triple, cm, refl, act, v0) ==
    Append(res, [key |-> triple,
                 value |-> Cell_build_geometry(restrict_matrix(cm, triple), v0,
                                               restrict_list(act, triple),
                                               restrict_list(refl, triple))])

\* one pass of the loop of get_fundamental_cells (lines 154-160): result is
\* the dict built so far, as its items in insertion order
get_fundamental_cells_step(res, triple, cm, refl, act, v0) ==
    LET sub == restrict_matrix(cm, triple)
        refs == restrict_list(refl, triple)
        actv == restrict_list(act, triple)
    IN IF ~is_degenerate(sub, actv)
       THEN Append(res, [key |-> triple,
                         value |-> Cell_build_geometry(sub, v0, actv, refs)])
       ELSE res

\* a slip of line 166: the midpoint is not registered
is_new_edge_never_registers(hash_set, edge) ==
    [ret |-> centroid(edge) \notin hash_set, edge_hash_set |-> hash_set]

\* a slip of line 166: the registry is replaced, not added to
is_new_edge_overwrites(hash_set, edge) ==
    LET mid == centroid(edge)
    IN IF mid \notin hash_set
       THEN [ret |-> TRUE, edge_hash_set |-> {mid}]
       ELSE [ret |-> FALSE, edge_hash_set |-> hash_set]

\* a slip of line 164: the key is the first endpoint, not the midpoint
is_new_edge_first_endpoint(hash_set, edge) ==
    LET mid == vround(normalize(edge[1]))
    IN IF mid \notin hash_set
       THEN [ret |-> TRUE, edge_hash_set |-> hash_set \cup {mid}]
       ELSE [ret |-> FALSE, edge_hash_set |-> hash_set]

\* Honeycomb.is_new_edge (line 163): the answer and the registry after it
is_new_edge(hash_set, edge) ==
    LET mid == centroid(edge)
    IN IF mid \notin hash_set
       THEN [ret |-> TRUE, edge_hash_set |-> hash_set \cup {mid}]
       ELSE [ret |-> FALSE, edge_hash_set |-> hash_set]

RECURSIVE CellEdges(_, _)
\* the edges the loops of collect_fundamental_cell_edges (lines 172-173) visit,
\* in order: cells in insertion order, each cell's edge_coords in order
CellEdges(cells, c) ==
    IF c > Len(cells) THEN <<>>
    ELSE cells[c].value.edge_coords \o CellEdges(cells, c + 1)

\* one record of the output file
Line(kind, p1, p2, n, vs) == [kind |-> kind, p1 |-> p1, p2 |-> p2, n |-> n, vs |-> vs]

\* Honeycomb.export_edge (line 178): one HyperbolicEdge line at the file's end
export_edge(fobj, p1, p2) == Append(fobj, Line("HyperbolicEdge", p1, p2, 0, {}))

\* line 200: the camera test of one projected endpoint
in_view(p, eye_, viewdir_) ==
    RoundDiv(Dot(VSub(p, eye_), viewdir_), Unit) > Unit \div 2

\* lines 203-207: the vertex registry and counter after one endpoint
count_vertex(st, p) ==
    LET v == vround(p)
    IN IF v \notin st.vertices
       THEN [st EXCEPT !.vertices = @ \cup {v}, !.num_vertices = @ + 1]
       ELSE st

\* a slip of line 200: "and" for "or"
add_new_edge_both_ends(st, edge, eye_, viewdir_) ==
    LET p1 == project_poincare(edge[1])
        p2 == project_poincare(edge[2])
    IN IF in_view(p1, eye_, viewdir_) /\ in_view(p2, eye_, viewdir_)
       THEN count_vertex(
                count_vertex([st EXCEPT !.f = export_edge(@, p1, p2),
                                        !.num_edges = @ + 1], p1), p2)
       ELSE st

\* add_new_edge (line 197) on st = [f, num_edges, num_vertices, vertices]
add_new_edge(st, edge, eye_, viewdir_) ==
    LET p1 == project_poincare(edge[1])
        p2 == project_poincare(edge[2])
    IN IF in_view(p1, eye_, viewdir_) \/ in_view(p2, eye_, viewdir_)
       THEN count_vertex(
                count_vertex([st EXCEPT !.f = export_edge(@, p1, p2),
                                        !.num_edges = @ + 1], p1), p2)
       ELSE st

\* --------------------------------------------------------------- the state
VARIABLES
    pc,                 \* where the caller's script is
    coxeter_diagram, init_dist,          \* the arguments of Honeycomb(...)
    depth, maxcount, eye, lookat,        \* the arguments of generate_povray_data
    attrs,              \* the attributes of self assigned so far
    cox_mat, active, mirrors, init_v, fundamental_cells,
    edge_hash_set, num_vertices, num_edges,
    triples, result,    \* get_fundamental_cells: triples to come, dict so far
    words, word,        \* the word generator's words to come, the current word
    pending,            \* collect_fundamental_cell_edges: edges to come
    init_edges, vertices, viewdir, k,
    f, file_state,      \* the output file's lines; absent, open or closed
    considered,         \* history: the triples get_fundamental_cells looked at
    built,              \* history: the triples a Cell was built for
    accepted,           \* history: the edges is_new_edge answered True for
    handed,             \* history: the edges given to add_new_edge in this call
    runs,               \* history: the calls of generate_povray_data completed
    history             \* history: per completed call, what it wrote

inputs == <<coxeter_diagram, init_dist, depth, maxcount, eye, lookat>>
self == <<attrs, cox_mat, active, mirrors, init_v, fundamental_cells,
          edge_hash_set, num_vertices, num_edges>>
ctor == <<triples, result, considered, built>>
gen == <<words, word, pending, init_edges, vertices, viewdir, k, f, file_state>>
ghost == <<accepted, handed, runs, history>>
vars == <<pc, inputs, self, ctor, gen, ghost>>

\* the arguments tried
Diagrams == {Diagram334, Diagram433, <<3, 2, 2>>, <<3, 2, 2, 3, 2, 4, 2>>}
Distances == {<<200, 0, 0, 0>>, <<0, 0, 0, 200>>, <<201, 0, 0, 200>>,
              <<0, 0, 0, 0>>, <<200, 0, 0>>, <<200, 0, 0, 0, 0>>}
Half == Unit \div 2
Cameras == {[eye |-> <<0, 0, Half>>, lookat |-> <<0, 0, 0>>],
            [eye |-> <<0, 0, 0 - Half>>, lookat |-> <<0, 0, 0>>]}

InitWith(counts) ==
    /\ pc = "new"
    /\ coxeter_diagram \in Diagrams
    /\ init_dist \in Distances
    /\ depth \in 0..MaxDepth
    /\ maxcount \in counts
    /\ \E c \in Cameras : eye = c.eye /\ lookat = c.lookat
    /\ attrs = {}
    /\ cox_mat = <<>> /\ active = <<>> /\ mirrors = <<>> /\ init_v = <<>>
    /\ fundamental_cells = <<>>
    /\ edge_hash_set = {} /\ num_vertices = 0 /\ num_edges = 0
    /\ triples = <<>> /\ result = <<>>
    /\ words = <<>> /\ word = <<>> /\ pending = <<>>
    /\ init_edges = <<>> /\ vertices = {} /\ viewdir = <<>> /\ k = 0
    /\ f = <<>> /\ file_state = "absent"
    /\ considered = <<>> /\ built = <<>>
    /\ accepted = <<>> /\ handed = <<>> /\ runs = 0 /\ history = <<>>

Init == InitWith({1, MaxCount})

\* ------------------------------------------------------ Honeycomb.__init__
\* lines 94-95
Init_Validate ==
    /\ pc = "new"
    /\ pc' = IF invalid_input(coxeter_diagram, init_dist) THEN "raised" ELSE "matrix"
    /\ UNCHANGED <<inputs, self, ctor, gen, ghost>>

\* lines 98-105
Init_Matrix ==
    /\ pc = "matrix"
    /\ cox_mat' = make_symmetry_matrix(coxeter_diagram)
    /\ attrs' = attrs \cup {"cox_mat", "rank", "gens", "G"}
    /\ pc' = "mirrors"
    /\ UNCHANGED <<inputs, active, mirrors, init_v, fundamental_cells,
                   edge_hash_set, num_vertices, num_edges, ctor, gen, ghost>>

\* lines 108-117, and the start of get_fundamental_cells (lines 153-154)
Init_Mirrors ==
    /\ pc = "mirrors"
    /\ active' = [i \in 1..Len(init_dist) |-> init_dist[i] # 0]
    /\ mirrors' = get_hyperbolic_honeycomb_mirrors(coxeter_diagram)
    /\ init_v' = get_point_from_distance(mirrors', init_dist)
    /\ attrs' = attrs \cup {"active", "mirrors", "reflections", "init_v"}
    /\ triples' = combinations3(Len(cox_mat))
    /\ result' = <<>>
    /\ pc' = "cells"
    /\ UNCHANGED <<inputs, cox_mat, fundamental_cells, edge_hash_set,
                   num_vertices, num_edges, considered, built, gen, ghost>>

\* lines 154-160: one triple
GetFundamentalCell ==
    /\ pc = "cells"
    /\ triples # <<>>
    /\ LET triple == Head(triples)
       IN /\ result' = get_fundamental_cells_step(result, triple, cox_mat,
                                                   mirrors, active, init_v)
          /\ considered' = Append(considered, triple)
          /\ built' = IF Len(result') > Len(result) THEN Append(built, triple)
                      ELSE built
    /\ triples' = Tail(triples)
    /\ UNCHANGED <<pc, inputs, self, gen, ghost>>

\* line 161 and lines 119-124
Init_Finish ==
    /\ pc = "cells"
    /\ triples = <<>>
    /\ fundamental_cells' = result
    /\ result' = <<>>
    /\ edge_hash_set' = {}
    /\ num_vertices' = 0
    /\ num_edges' = 0
    /\ attrs' = attrs \cup {"fundamental_cells", "edge_hash_set",
                            "num_vertices", "num_edges"}
    /\ pc' = "ready"
    /\ UNCHANGED <<inputs, cox_mat, active, mirrors, init_v, triples,
                   considered, built, gen, ghost>>

\* ------------------------------------------------- generate_povray_data
\* lines 188-190 up to the loops of collect_fundamental_cell_edges
Generate_Begin ==
    /\ pc = "ready"
    /\ runs < MaxRuns
    /\ words' = traverse(mirrors, depth, maxcount)
    /\ pending' = CellEdges(fundamental_cells, 1)
    /\ init_edges' = <<>>
    /\ pc' = "collect"
    /\ UNCHANGED <<inputs, self, ctor, word, vertices, viewdir, k, f, file_state,
                   ghost>>

\* lines 173-175: one edge of one cell
Collect ==
    /\ pc = "collect"
    /\ pending # <<>>
    /\ LET edge == Head(pending)
           r == is_new_edge(edge_hash_set, edge)
       IN /\ edge_hash_set' = r.edge_hash_set
          /\ init_edges' = IF r.ret THEN Append(init_edges, edge) ELSE init_edges
          /\ accepted' = IF r.ret THEN Append(accepted, edge) ELSE accepted
    /\ pending' = Tail(pending)
    /\ UNCHANGED <<pc, inputs, attrs, cox_mat, active, mirrors, init_v,
                   fundamental_cells, num_vertices, num_edges, ctor, words, word,
                   vertices, viewdir, k, f, file_state, handed, runs, history>>

\* a slip of lines 210-211: the two header lines in the other order
Generate_Open_lookat_first ==
    /\ pc = "collect"
    /\ pending = <<>>
    /\ vertices' = {}
    /\ viewdir' = normalize(VSub(lookat, eye))
    /\ file_state' = "open"
    /\ f' = << Line("lookat", lookat, <<>>, 0, {}),
               Line("camera_loc", eye, <<>>, 0, {}) >>
    /\ handed' = <<>>
    /\ k' = 1
    /\ pc' = IF init_edges = <<>> THEN "word" ELSE "seed"
    /\ UNCHANGED <<inputs, self, ctor, words, word, pending, init_edges,
                   accepted, runs, history>>

\* lines 191-211: the locals, the open(filename, "w") and the two header lines
Generate_Open ==
    /\ pc = "collect"
    /\ pending = <<>>
    /\ vertices' = {}
    /\ viewdir' = normalize(VSub(lookat, eye))
    /\ file_state' = "open"
    /\ f' = << Line("camera_loc", eye, <<>>, 0, {}),
               Line("lookat", lookat, <<>>, 0, {}) >>
    /\ handed' = <<>>
    /\ k' = 1
    /\ pc' = IF init_edges = <<>> THEN "word" ELSE "seed"
    /\ UNCHANGED <<inputs, self, ctor, words, word, pending, init_edges,
                   accepted, runs, history>>

\* the state add_new_edge reads and writes
EmitState == [f |-> f, num_edges |-> num_edges, num_vertices |-> num_vertices,
              vertices |-> vertices]

Emit(edge) ==
    LET st == add_new_edge(EmitState, edge, eye, viewdir)
    IN /\ f' = st.f
       /\ num_edges' = st.num_edges
       /\ num_vertices' = st.num_vertices
       /\ vertices' = st.vertices
       /\ handed' = Append(handed, edge)

\* lines 212-213: one fundamental edge
EmitSeed ==
    /\ pc = "seed"
    /\ Emit(init_edges[k])
    /\ k' = k + 1
    /\ pc' = IF k = Len(init_edges) THEN "word" ELSE "seed"
    /\ UNCHANGED <<inputs, attrs, cox_mat, active, mirrors, init_v,
                   fundamental_cells, edge_hash_set, ctor, words, word, pending,
                   init_edges, viewdir, file_state, accepted, runs, history>>

\* line 215: the generator yields its i-th word to come
TakeWord(i) ==
    /\ pc = "word"
    /\ i \in 1..Len(words)
    /\ word' = words[i]
    /\ words' = SubSeq(words, 1, i - 1) \o SubSeq(words, i + 1, Len(words))
    /\ k' = 1
    /\ pc' = IF init_edges = <<>> THEN "word" ELSE "edge"
    /\ UNCHANGED <<inputs, self, ctor, pending, init_edges, vertices, viewdir, f,
                   file_state, ghost>>

\* line 215 with the engine's order: the words come shortest first
NextWord == TakeWord(1)

\* line 215 with an engine that yields the same words in any order
NextWordAnyOrder == \E i \in 1..Len(words) : TakeWord(i)

\* lines 216-219: one fundamental edge under the current word
ExpandEdge ==
    /\ pc = "edge"
    /\ LET edge == <<transform(mirrors, word, init_edges[k][1]),
                     transform(mirrors, word, init_edges[k][2])>>
           r == is_new_edge(edge_hash_set, edge)
       IN /\ edge_hash_set' = r.edge_hash_set
          /\ IF r.ret
             THEN /\ Emit(edge)
                  /\ accepted' = Append(accepted, edge)
             ELSE UNCHANGED <<f, num_edges, num_vertices, vertices, handed, accepted>>
    /\ k' = k + 1
    /\ pc' = IF k = Len(init_edges) THEN "word" ELSE "edge"
    /\ UNCHANGED <<inputs, attrs, cox_mat, active, mirrors, init_v,
                   fundamental_cells, ctor, words, word, pending, init_edges,
                   viewdir, file_state, runs, history>>

\* lines 222-227: the two footer lines; leaving the with block closes the file
WriteFooter ==
    /\ pc = "word"
    /\ words = <<>>
    /\ f' = f \o << Line("num_vertices", <<>>, <<>>, num_vertices, {}),
                    Line("vertices", <<>>, <<>>, num_vertices, vertices) >>
    /\ file_state' = "closed"
    /\ runs' = runs + 1
    /\ history' = Append(history, [lines |-> Len(f) - 2, accepted |-> Len(accepted)])
    /\ pc' = "ready"
    /\ UNCHANGED <<inputs, self, ctor, words, word, pending, init_edges,
                   vertices, viewdir, k, accepted, handed>>

Construct == Init_Validate \/ Init_Matrix \/ Init_Mirrors \/ GetFundamentalCell
             \/ Init_Finish

Export == Generate_Begin \/ Collect \/ Generate_Open \/ EmitSeed \/ ExpandEdge
          \/ WriteFooter

Next == Construct \/ Export \/ NextWord

Spec == Init /\ [][Next]_vars

\* the same program over an engine free to yield its words in any order
InitAnyOrder == InitWith({1, MaxCountAny})

NextAnyOrder == Construct \/ Export \/ NextWordAnyOrder

SpecAnyOrder == InitAnyOrder /\ [][NextAnyOrder]_vars

\* ================================================================ the claims
\* what the claims speak of, stated on the state alone
IsEdgeLine(l) == l.kind = "HyperbolicEdge"
EdgeLines(file) == SelectSeq(file, IsEdgeLine)

\* the camera sees the projected point p
Seen(p) == RoundDiv(Dot(VSub(p, eye), normalize(VSub(lookat, eye))), Unit) > Half

\* the camera sees an endpoint of the edge
Visible(edge) == Seen(project_poincare(edge[1])) \/ Seen(project_poincare(edge[2]))

\* the HyperbolicEdge line of an edge
LineOf(edge) == Line("HyperbolicEdge", project_poincare(edge[1]),
                     project_poincare(edge[2]), 0, {})

LinesOf(edges) == [i \in 1..Len(edges) |-> LineOf(edges[i])]

\* the camera sees an endpoint of the line's edge
LineVisible(l) == Seen(l.p1) \/ Seen(l.p2)

ShapeIsWrong == Len(coxeter_diagram) # 6 \/ Len(init_dist) # 4

\* C1: a diagram whose length is not 6, or distances whose length is not 4,
\* make the constructor raise, and nothing of the geometry (matrix, mirrors,
\* reflections, initial point, cells) has been built and no file touched.
C1_RejectedBeforeGeometry ==
    ShapeIsWrong =>
        /\ pc \in {"new", "raised"}
        /\ attrs = {}
        /\ cox_mat = <<>> /\ mirrors = <<>> /\ init_v = <<>> /\ active = <<>>
        /\ considered = <<>> /\ built = <<>> /\ fundamental_cells = <<>>
        /\ file_state = "absent" /\ f = <<>>

C1_Witness ==
    pc = "raised" /\ Len(coxeter_diagram) = 6 /\ Len(init_dist) # 4

\* the first call of generate_povray_data has returned
FirstRunDone == pc = "ready" /\ runs = 1

\* C2 (as claimed): after the first call with depth = 0 the file holds one
\* HyperbolicEdge line for every fundamental edge, and no other.
C2_Depth0WritesEverySeed ==
    (FirstRunDone /\ depth = 0) => EdgeLines(f) = LinesOf(init_edges)

\* C2 (amended): after the first call with depth = 0 the file holds one
\* HyperbolicEdge line for every fundamental edge the camera sees, in
\* collection order, and no other: the expansion adds nothing.
C2_Depth0WritesVisibleSeeds ==
    (FirstRunDone /\ depth = 0) =>
        EdgeLines(f) = SelectSeq(LinesOf(init_edges), LineVisible)

C2_Witness ==
    /\ FirstRunDone /\ depth = 0
    /\ Len(EdgeLines(f)) > 0
    /\ Len(EdgeLines(f)) < Len(init_edges)

\* C3: an edge handed to the emitter is written iff the camera sees one of
\* its projected endpoints; an edge it does not see changes neither the file
\* nor num_edges nor num_vertices.
C3_CullCorrect ==
    [][Len(handed') = Len(handed) + 1 =>
         LET edge == handed'[Len(handed')]
         IN IF Visible(edge)
            THEN f' = Append(f, LineOf(edge)) /\ num_edges' = num_edges + 1
            ELSE f' = f /\ num_edges' = num_edges /\ num_vertices' = num_vertices
               /\ vertices' = vertices]_vars

C3_Witness ==
    /\ \E i \in 1..Len(handed) : Visible(handed[i])
    /\ \E j \in 1..Len(handed) : ~Visible(handed[j])
    /\ pc = "edge"

Midpoints(edges) == {centroid(edges[i]) : i \in 1..Len(edges)}

\* C4: the edge registry never loses a midpoint, its size is the number of
\* edges accepted so far, and the accepted edges have distinct midpoints,
\* which are exactly the registered ones.
C4_RegistryCountsAccepted ==
    [][/\ edge_hash_set \subseteq edge_hash_set'
       /\ Cardinality(edge_hash_set') >= Cardinality(edge_hash_set)
       /\ Cardinality(edge_hash_set') = Len(accepted')
       /\ Midpoints(accepted') = edge_hash_set']_vars

C4_Witness ==
    /\ pc = "edge"
    /\ Len(accepted) > Len(init_edges)
    /\ Len(handed) < Len(init_edges) * (Len(handed) - Len(init_edges) + 1)
    /\ k > 1

CellOk(C) ==
    /\ C.num_vertices > 0
    /\ C.num_edges > 0
    /\ C.num_vertices = Len(C.vertices_coords)
    /\ C.num_edges = Len(C.edge_coords)
    /\ \A e \in 1..Len(C.edge_coords) : \A end \in 1..2 :
          \E v \in 1..Len(C.vertices_coords) :
              C.vertices_coords[v] = C.edge_coords[e][end]

\* C5: every cell that was built has at least one vertex and one edge, and
\* both endpoints of each of its edges are among its vertices.
C5_CellsWellFormed ==
    /\ \A c \in 1..Len(result) : CellOk(result[c].value)
    /\ \A c \in 1..Len(fundamental_cells) : CellOk(fundamental_cells[c].value)

C5_Witness ==
    /\ pc = "ready"
    /\ Len(fundamental_cells) >= 3
    /\ \E c \in 1..Len(fundamental_cells) : fundamental_cells[c].value.num_edges >= 12

Keys(items) == [i \in 1..Len(items) |-> items[i].key]

NotDegenerate(triple) ==
    ~is_degenerate(restrict_matrix(cox_mat, triple), restrict_list(active, triple))

\* C6: get_fundamental_cells looks at each of the 4 three-element subsets of
\* the generators once; it builds a cell, once, for exactly the subsets that
\* are not degenerate, skips the others, and raises nothing.
C6_CellsAreNonDegenerateTriples ==
    /\ pc \in {"cells"} =>
          /\ built = SelectSeq(considered, NotDegenerate)
          /\ Keys(result) = built
    /\ pc \notin {"new", "raised", "matrix", "mirrors", "cells"} =>
          /\ considered = << <<0, 1, 2>>, <<0, 1, 3>>, <<0, 2, 3>>, <<1, 2, 3>> >>
          /\ built = SelectSeq(considered, NotDegenerate)
          /\ Keys(fundamental_cells) = built
    /\ ~ShapeIsWrong => pc # "raised"

C6_Witness ==
    /\ pc = "ready"
    /\ Len(fundamental_cells) = 2
    /\ Len(considered) = 4

\* C7: every call with the same arguments writes as many HyperbolicEdge lines
\* as the first call did.
C7_SameCountEveryRun ==
    \A i \in 1..Len(history) : history[i].lines = history[1].lines

\* the edges accepted as new by the call in progress (or just completed)
RunStart ==
    LET done == IF pc = "ready" THEN runs - 1 ELSE runs
    IN IF done >= 1 THEN history[done].accepted ELSE 0

\* their lines, in the order they were found
DiscoveredLines ==
    IF pc = "seed" THEN [i \in 1..(k - 1) |-> LineOf(init_edges[i])]
    ELSE [i \in 1..(Len(accepted) - RunStart) |-> LineOf(accepted[RunStart + i])]

\* C8: the file is the camera_loc line, the lookat line, the HyperbolicEdge
\* lines, the num_vertices line, the vertices line, in this order; and the
\* HyperbolicEdge lines are in discovery order: the fundamental edges in
\* collection order, then the expanded edges in the order they were accepted.
C8_OutputOrder ==
    /\ \A i \in 1..Len(f) :
          /\ (i = 1) <=> (f[i].kind = "camera_loc")
          /\ (i = 2) <=> (f[i].kind = "lookat")
          /\ f[i].kind = "HyperbolicEdge" =>
                i >= 3 /\ (i > 3 => f[i - 1].kind = "HyperbolicEdge")
          /\ f[i].kind = "num_vertices" =>
                /\ file_state = "closed" /\ i = Len(f) - 1
                /\ f[Len(f)].kind = "vertices"
          /\ f[i].kind = "vertices" => i = Len(f) /\ f[i - 1].kind = "num_vertices"
          /\ f[i].kind \in {"camera_loc", "lookat", "HyperbolicEdge",
                            "num_vertices", "vertices"}
    /\ file_state = "closed" => Len(f) >= 4 /\ f[Len(f)].kind = "vertices"
    /\ (pc \in {"seed", "word", "edge"} \/ (pc = "ready" /\ runs >= 1)) =>
          EdgeLines(f) = SelectSeq(DiscoveredLines, LineVisible)

C8_Witness ==
    /\ pc = "ready" /\ runs = 1
    /\ Len(accepted) > Len(init_edges)
    /\ Len(EdgeLines(f)) >= 3
    /\ \E i \in 1..Len(init_edges) : Visible(init_edges[i])
    /\ \E i \in (Len(init_edges) + 1)..Len(accepted) : Visible(accepted[i])

\* every edge the expansion can produce from the fundamental edges and the
\* engine's words, whatever their order
Candidates ==
    LET W == traverse(mirrors, depth, maxcount)
    IN {init_edges[i] : i \in 1..Len(init_edges)}
       \cup {<<transform(mirrors, W[w], init_edges[i][1]),
               transform(mirrors, W[w], init_edges[i][2])>> :
               w \in 1..Len(W), i \in 1..Len(init_edges)}

C10_FooterConsistent ==
    (pc = "ready" /\ runs >= 1) =>
        LET lines == EdgeLines(f)
            ends == {vround(lines[i].p1) : i \in 1..Len(lines)}
                    \cup {vround(lines[i].p2) : i \in 1..Len(lines)}
        IN /\ f[Len(f) - 1].n = Cardinality(f[Len(f)].vs)
           /\ f[Len(f)].n = f[Len(f) - 1].n
           /\ Cardinality(f[Len(f)].vs) = Cardinality(ends)
           /\ num_edges = Len(lines)

====
